---- MODULE Spec2Model ----
(***************************************************************************)
(* Static build of the blog's listing pages.                               *)
(*                                                                         *)
(* The build loads the "blog" content collection, orders it with           *)
(* orderBySticky and cuts it into listing pages: the index page (/) shows  *)
(* the first page, the route /blog/[page] shows every page that Astro's    *)
(* paginate() generates.  Arrays are JavaScript objects: they live in      *)
(* `heap` and the pages' variables hold references to them, so that an     *)
(* in-place operation (Array.prototype.splice) is visible through every    *)
(* reference to the same array.                                            *)
(***************************************************************************)
EXTENDS Integers, Sequences, FiniteSets, TLC

VARIABLES
  files,           \* the blog collection as loaded from the content files
  ga,              \* config.ga  (consts.ts:43)
  heap,            \* array objects, by reference
  idxPc,           \* position of the index page's frontmatter
  blogs,           \* index.astro: let blogs       (a reference)
  totalPage,       \* index.astro: let totalPage
  idxSortedPosts,  \* index.astro: let sortedPosts (a reference)
  idxView,         \* what the index page rendered
  gspPc,           \* position of getStaticPaths of /blog/[page]
  posts,           \* [page].astro: let posts       (a reference)
  gspSortedPosts,  \* [page].astro: let sortedPosts (a reference)
  paths,           \* the Page objects paginate() returned
  blogView,        \* what each rendered /blog/{page} shows, by page number
  head             \* the elements the <head> component emitted

siteVars == <<files, ga, heap, idxPc, blogs, totalPage, idxSortedPosts, idxView,
              gspPc, posts, gspSortedPosts, paths, blogView, head>>

(***************************************************************************)
(* The programs the site carries besides its pages: the rehype plugin of   *)
(* astro.config.mjs and the Go programs listed in the articles.  Each has  *)
(* its own variables and its own specification; while one of them runs the *)
(* others stay as they are.                                                *)
(***************************************************************************)
VARIABLES
  rhTree,          \* customRehypeLazyLoadImage: the nodes of the tree, in visiting order
  rhOrig,          \* the tree as it was handed to the plugin
  rhPos,           \* number of nodes visited
  sfMu,            \* singleflight: g.mu (0: unlocked, else the holder)
  sfM,             \* g.m: key -> call
  sfCalls,         \* the call objects
  sfG,             \* the goroutines calling Do
  accBalance,      \* Account: a.balance
  accVersion,      \* a.version
  accG,            \* the goroutines calling UpdateBalance
  ctrValue,        \* Counter: c.value
  ctrInitial,      \* c.value before the first call
  ctrG,            \* the goroutines calling Increment
  cdMutex,         \* CondSignalExample: mutex (0: unlocked, else the holder)
  cdWaiters,       \* goroutines suspended in c.Wait()
  cdWg,            \* wg's counter
  cdG,             \* the five goroutines
  cdMain,          \* the main goroutine
  bkBalance,       \* BankMutex: balance
  bkMutex,         \* mutex (0: unlocked, else the holder)
  bkCh,            \* ch: its buffer and whether it is closed
  bkG,             \* the three goroutines
  bkMain           \* the main goroutine

rehypeVars == <<rhTree, rhOrig, rhPos>>
sfVars == <<sfMu, sfM, sfCalls, sfG>>
accVars == <<accBalance, accVersion, accG>>
ctrVars == <<ctrValue, ctrInitial, ctrG>>
cdVars == <<cdMutex, cdWaiters, cdWg, cdG, cdMain>>
bkVars == <<bkBalance, bkMutex, bkCh, bkG, bkMain>>

vars == <<siteVars, rehypeVars, sfVars, accVars, ctrVars, cdVars, bkVars>>

\* A program that is not running.
RehypeIdle == rhTree = << >> /\ rhOrig = << >> /\ rhPos = 0
SfIdle == sfMu = 0 /\ sfM = << >> /\ sfCalls = << >> /\ sfG = << >>
AccIdle == accBalance = 0 /\ accVersion = 0 /\ accG = << >>
CtrIdle == ctrValue = 0 /\ ctrInitial = 0 /\ ctrG = << >>
CdIdle == cdMutex = 0 /\ cdWaiters = << >> /\ cdWg = 0 /\ cdG = << >> /\ cdMain = "idle"
BkIdle ==
  /\ bkBalance = 0 /\ bkMutex = 0 /\ bkCh = << >> /\ bkG = << >>
  /\ bkMain = [pc |-> "idle", i |-> 0, closed |-> FALSE, out |-> << >>]

(***************************************************************************)
(* Bounds of the model.                                                    *)
(***************************************************************************)
MaxPosts == 21      \* posts in the collection: 0 .. MaxPosts
MaxStickyId == 2    \* only the first MaxStickyId files may carry sticky
DateMod == 7        \* dates are drawn from 0 .. DateMod-1
MaxMult == 2        \* number of date patterns

(***************************************************************************)
(* consts.ts                                                               *)
(***************************************************************************)
postPageSize == 10

JsFalse == "false"          \* the JavaScript value false
GaId == "G-TEST"            \* some Google Analytics id
undefined == "undefined"    \* the JavaScript value undefined

site == [postPageSize |-> postPageSize]

config == [busuanzi |-> JsFalse, ga |-> ga]

BlogCategoryHref == "/blog/1"

\* JavaScript truthiness of the values the model uses.
Truthy(v) == v \notin {JsFalse, "", undefined}

(***************************************************************************)
(* Arrays                                                                  *)
(***************************************************************************)
Min(a, b) == IF a < b THEN a ELSE b
Max(a, b) == IF a > b THEN a ELSE b

\* Array.prototype.slice(start, end): positions start .. end-1, counted from 0.
Slice(arr, start, end) == SubSeq(arr, start + 1, Min(end, Len(arr)))

\* Array.prototype.splice(start, deleteCount): removes the elements from the
\* array itself and returns them as a new array.
Splice(arr, start, deleteCount) ==
  LET s == Min(start, Len(arr))
      c == Min(deleteCount, Len(arr) - s)
  IN  [removed |-> SubSeq(arr, s + 1, s + c),
       rest    |-> SubSeq(arr, 1, s) \o SubSeq(arr, s + c + 1, Len(arr))]

Refs == {"store", "idx.blogs", "idx.sorted", "idx.spliced", "gsp.posts", "gsp.sorted"}
NoRef == "none"

(***************************************************************************)
(* utils/getCollectionByName and utils/orderBySticky                       *)
(*                                                                         *)
(* Both are pure functions over arrays: they leave their argument alone    *)
(* and return a new array.  `into` is the reference of the array returned. *)
(***************************************************************************)
getCollectionByName(h, into) ==
  [ref |-> into, heap |-> [h EXCEPT ![into] = h["store"]]]

\* a goes before b: sticky posts first, then the newer post first.
Before(a, b) ==
  \/ a.sticky /\ ~b.sticky
  \/ a.sticky = b.sticky /\ a.date > b.date

\* The stable sort of arr by Before: each element in turn is inserted after
\* the elements it does not go before.
RECURSIVE InsertSorted(_, _)
InsertSorted(x, sorted) ==
  IF sorted = << >> THEN <<x>>
  ELSE IF Before(x, Head(sorted)) THEN <<x>> \o sorted
  ELSE <<Head(sorted)>> \o InsertSorted(x, Tail(sorted))

RECURSIVE SortBySticky(_)
SortBySticky(arr) ==
  IF arr = << >> THEN << >>
  ELSE InsertSorted(arr[Len(arr)], SortBySticky(SubSeq(arr, 1, Len(arr) - 1)))

\* A variant that keeps the ordered list in the shared collection array and
\* hands that same array to every caller.
orderBySticky_shared(h, src, into) ==
  [ref |-> "store", heap |-> [h EXCEPT !["store"] = SortBySticky(h[src])]]

orderBySticky(h, src, into) ==
  [ref |-> into, heap |-> [h EXCEPT ![into] = SortBySticky(h[src])]]

(***************************************************************************)
(* lodash                                                                  *)
(***************************************************************************)
\* _.divide(a, b): the quotient, kept as a fraction.
divide(a, b) == [num |-> a, den |-> b]

\* _.ceil(q): the least integer not below q (den > 0).
ceil(q) == -((-q.num) \div q.den)

(***************************************************************************)
(* Astro's paginate() for the route /blog/[page]                           *)
(***************************************************************************)
\* routeMatch.generate({page}): the URL of a listing page.
BlogUrl(pageNum) == "/blog/" \o ToString(pageNum)

\* A variant without the floor of one page.
LastPage_noFloor(data, pageSize) == ceil(divide(Len(data), pageSize))

\* Math.max(1, Math.ceil(data.length / pageSize)).
LastPage(data, pageSize) == Max(1, ceil(divide(Len(data), pageSize)))

\* The Page object of page pageNum out of lastPage, holding data[start .. end-1].
PageOf(data, pageSize, pageNum, lastPage, start, end) ==
  [data        |-> Slice(data, start, end),
   start       |-> start,
   end         |-> end - 1,
   size        |-> pageSize,
   total       |-> Len(data),
   currentPage |-> pageNum,
   lastPage    |-> lastPage,
   url         |-> [current |-> BlogUrl(pageNum),
                    next    |-> IF pageNum = lastPage THEN undefined
                                ELSE BlogUrl(pageNum + 1),
                    prev    |-> IF pageNum = 1 THEN undefined
                                ELSE BlogUrl(pageNum - 1)]]

\* A variant that numbers the pages' contents from page 0.
paginate_zeroBased(data, pageSize) ==
  LET lastPage == LastPage(data, pageSize)
  IN  [pageNum \in 1..lastPage |->
        LET start == pageNum * pageSize
            end   == Min(start + pageSize, Len(data))
        IN  PageOf(data, pageSize, pageNum, lastPage, start, end)]

\* A variant that rounds the number of pages down.
paginate_floor(data, pageSize) ==
  LET lastPage == Max(1, Len(data) \div pageSize)
  IN  [pageNum \in 1..lastPage |->
        LET start == (pageNum - 1) * pageSize
            end   == Min(start + pageSize, Len(data))
        IN  PageOf(data, pageSize, pageNum, lastPage, start, end)]

paginate(data, pageSize) ==
  LET lastPage == LastPage(data, pageSize)
  IN  [pageNum \in 1..lastPage |->
        LET start == (pageNum - 1) * pageSize
            end   == Min(start + pageSize, Len(data))
        IN  PageOf(data, pageSize, pageNum, lastPage, start, end)]

(***************************************************************************)
(* The content collection                                                  *)
(***************************************************************************)
\* The collection of n files: file i carries sticky when i is in stickyIds,
\* and its date follows the date pattern mult.
Collection(n, stickyIds, mult) ==
  [i \in 1..n |-> [id |-> i, sticky |-> i \in stickyIds, date |-> (i * mult) % DateMod]]

\* A page not rendered yet.  `pagination` holds the props of the Pagination
\* elements on the page: none or one.
NoView == [posts |-> << >>, pagination |-> << >>, rendered |-> FALSE]

Init ==
  /\ \E n \in 0..MaxPosts, mult \in 1..MaxMult :
       \E stickyIds \in SUBSET (1..Min(n, MaxStickyId)) :
          files = Collection(n, stickyIds, mult)
  /\ ga \in {JsFalse, GaId}
  /\ heap = [r \in Refs |-> IF r = "store" THEN files ELSE << >>]
  /\ idxPc = "start"
  /\ blogs = NoRef
  /\ totalPage = 0
  /\ idxSortedPosts = NoRef
  /\ idxView = NoView
  /\ gspPc = "start"
  /\ posts = NoRef
  /\ gspSortedPosts = NoRef
  /\ paths = << >>
  /\ blogView = << >>
  /\ head = {}
  /\ RehypeIdle /\ SfIdle /\ AccIdle /\ CtrIdle /\ CdIdle /\ BkIdle

(***************************************************************************)
(* pages/index.astro                                                       *)
(***************************************************************************)
\* A variant that rounds down (_.floor for _.ceil).
IndexTotalPage_floor(length) == length \div site.postPageSize

\* line 13.
IndexTotalPage(length) == ceil(divide(length, site.postPageSize))

\* lines 11-13: up to the second await.
IndexGetCollection ==
  /\ idxPc = "start"
  /\ LET r == getCollectionByName(heap, "idx.blogs")
     IN  /\ heap' = r.heap
         /\ blogs' = r.ref
         /\ totalPage' = IndexTotalPage(Len(r.heap[r.ref]))
  /\ idxPc' = "loaded"
  /\ UNCHANGED <<files, ga, idxSortedPosts, idxView, gspPc, posts,
                 gspSortedPosts, paths, blogView, head>>

\* A variant that drops the result of splice: sortedPosts stays the array
\* that splice cut.
IndexSplice_keepsRest(h, ref) ==
  IF Len(h[ref]) > site.postPageSize
    THEN LET sp == Splice(h[ref], 0, site.postPageSize)
         IN  [ref  |-> ref,
              heap |-> [h EXCEPT ![ref] = sp.rest, !["idx.spliced"] = sp.removed]]
    ELSE [ref |-> ref, heap |-> h]

\* lines 16-18 on the array that orderBySticky returned.
IndexSplice(h, ref) ==
  IF Len(h[ref]) > site.postPageSize
    THEN LET sp == Splice(h[ref], 0, site.postPageSize)
         IN  [ref  |-> "idx.spliced",
              heap |-> [h EXCEPT ![ref] = sp.rest, !["idx.spliced"] = sp.removed]]
    ELSE [ref |-> ref, heap |-> h]

\* lines 15-18.
IndexOrder ==
  /\ idxPc = "loaded"
  /\ LET o == orderBySticky(heap, blogs, "idx.sorted")
         s == IndexSplice(o.heap, o.ref)
     IN  /\ heap' = s.heap
         /\ idxSortedPosts' = s.ref
  /\ idxPc' = "ordered"
  /\ UNCHANGED <<files, ga, blogs, totalPage, idxView, gspPc, posts,
                 gspSortedPosts, paths, blogView, head>>

\* A variant that shows the control as soon as there is one page.
IndexPagination_always(total) ==
  IF total > 0
    THEN <<[currentPage |-> 1, totalPage |-> total,
            url |-> [prev |-> "", next |-> "/blog/2"]]>>
    ELSE << >>

\* line 23: the Pagination element of the index page (currentPage is 1, line 11).
IndexPagination(total) ==
  IF total > 1
    THEN <<[currentPage |-> 1, totalPage |-> total,
            url |-> [prev |-> "", next |-> "/blog/2"]]>>
    ELSE << >>

\* lines 21-24.
IndexRender ==
  /\ idxPc = "ordered"
  /\ idxView' = [posts |-> heap[idxSortedPosts],
                 pagination |-> IndexPagination(totalPage),
                 rendered |-> TRUE]
  /\ idxPc' = "rendered"
  /\ UNCHANGED <<files, ga, heap, blogs, totalPage, idxSortedPosts, gspPc,
                 posts, gspSortedPosts, paths, blogView, head>>

(***************************************************************************)
(* pages/blog/[page].astro                                                 *)
(***************************************************************************)
\* line 11.
GspGetCollection ==
  /\ gspPc = "start"
  /\ LET r == getCollectionByName(heap, "gsp.posts")
     IN  /\ heap' = r.heap
         /\ posts' = r.ref
  /\ gspPc' = "loaded"
  /\ UNCHANGED <<files, ga, idxPc, blogs, totalPage, idxSortedPosts, idxView,
                 gspSortedPosts, paths, blogView, head>>

\* line 12.
GspOrder ==
  /\ gspPc = "loaded"
  /\ LET o == orderBySticky(heap, posts, "gsp.sorted")
     IN  /\ heap' = o.heap
         /\ gspSortedPosts' = o.ref
  /\ gspPc' = "ordered"
  /\ UNCHANGED <<files, ga, idxPc, blogs, totalPage, idxSortedPosts, idxView,
                 posts, paths, blogView, head>>

\* A variant that paginates the collection as loaded.
GspPaginate_unsorted ==
  /\ gspPc = "ordered"
  /\ paths' = paginate(heap[posts], site.postPageSize)
  /\ gspPc' = "done"
  /\ UNCHANGED <<files, ga, heap, idxPc, blogs, totalPage, idxSortedPosts,
                 idxView, posts, gspSortedPosts, blogView, head>>

\* line 13.
GspPaginate ==
  /\ gspPc = "ordered"
  /\ paths' = paginate(heap[gspSortedPosts], site.postPageSize)
  /\ gspPc' = "done"
  /\ UNCHANGED <<files, ga, heap, idxPc, blogs, totalPage, idxSortedPosts,
                 idxView, posts, gspSortedPosts, blogView, head>>

\* A variant that passes the number of posts as the number of pages.
BlogPageView_total(page) ==
  [posts |-> page.data,
   pagination |-> <<[currentPage |-> page.currentPage,
                     totalPage   |-> page.total,
                     url         |-> page.url]>>,
   rendered |-> TRUE]

\* lines 16-22: the page built from one Page object.
BlogPageView(page) ==
  [posts |-> page.data,
   pagination |-> <<[currentPage |-> page.currentPage,
                     totalPage   |-> page.lastPage,
                     url         |-> page.url]>>,
   rendered |-> TRUE]

RenderBlogPage ==
  /\ gspPc = "done"
  /\ \E k \in DOMAIN paths \ DOMAIN blogView :
       blogView' = (k :> BlogPageView(paths[k])) @@ blogView
  /\ UNCHANGED <<files, ga, heap, idxPc, blogs, totalPage, idxSortedPosts,
                 idxView, gspPc, posts, gspSortedPosts, paths, head>>

(***************************************************************************)
(* The <head> component                                                    *)
(***************************************************************************)
\* What the GoogleAnalytics component renders: kept opaque, one element.
GoogleAnalytics == {"GoogleAnalytics"}

\* The elements of <head>: line 12 and lines 13-46 whatever the props and
\* config are, then the elements under a condition (lines 47-76).
HeadElements(mathjax, mermaid) ==
     GoogleAnalytics
  \cup {"meta", "toggle-theme.js"}
  \cup (IF mathjax THEN {"load-mathjax.js"} ELSE {})
  \cup (IF mermaid THEN {"mermaid.min.js"} ELSE {})
  \cup (IF Truthy(config.busuanzi) THEN {"busuanzi.pure.mini.js"} ELSE {})
  \cup (IF Truthy(config.ga)
          THEN {"https://www.googletagmanager.com/gtag/js?id=" \o config.ga,
                "gtag('config', ga)"}
          ELSE {})

RenderHead ==
  /\ head = {}
  /\ \E mathjax \in BOOLEAN, mermaid \in BOOLEAN :
       head' = HeadElements(mathjax, mermaid)
  /\ UNCHANGED <<files, ga, heap, idxPc, blogs, totalPage, idxSortedPosts,
                 idxView, gspPc, posts, gspSortedPosts, paths, blogView>>

notSiteVars == <<rehypeVars, sfVars, accVars, ctrVars, cdVars, bkVars>>

Next ==
  \/ IndexGetCollection /\ UNCHANGED notSiteVars
  \/ IndexOrder /\ UNCHANGED notSiteVars
  \/ IndexRender /\ UNCHANGED notSiteVars
  \/ GspGetCollection /\ UNCHANGED notSiteVars
  \/ GspOrder /\ UNCHANGED notSiteVars
  \/ GspPaginate /\ UNCHANGED notSiteVars
  \/ RenderBlogPage /\ UNCHANGED notSiteVars
  \/ RenderHead /\ UNCHANGED notSiteVars

Spec == Init /\ [][Next]_vars

(***************************************************************************)
(* Properties                                                              *)
(***************************************************************************)
\* The sticky-then-date ordered list of the collection.
Ordered == SortBySticky(files)

\* The URLs of the pages that getStaticPaths generated.
GeneratedUrls == {paths[k].url.current : k \in DOMAIN paths}

\* The posts of pages 1 .. k, one page after the other.
RECURSIVE ConcatPages(_)
ConcatPages(k) == IF k = 0 THEN << >> ELSE ConcatPages(k - 1) \o paths[k].data

\* The list puts sticky posts first and, under the same sticky flag, the
\* newer post first.
StickyThenDate(list) ==
  \A i, j \in 1..Len(list) :
     i < j => /\ (list[j].sticky => list[i].sticky)
              /\ (list[i].sticky = list[j].sticky => list[i].date >= list[j].date)

\* C1, as stated: page N at /blog/{N} holds the posts at positions
\* N*pageSize .. N*pageSize+pageSize-1 (from 0) of the ordered list.
C1_PageNFromZero ==
  gspPc = "done" =>
    \A N \in DOMAIN paths :
       /\ paths[N].url.current = BlogUrl(N)
       /\ paths[N].data = Slice(Ordered, N * postPageSize, N * postPageSize + postPageSize)

\* C1, amended: page N at /blog/{N} holds, in order, the posts at positions
\* (N-1)*pageSize .. N*pageSize-1 (from 0, cut off at the end) of the ordered
\* list, and that is what the rendered page shows.
C1_PageNFromOne ==
  gspPc = "done" =>
    /\ \A N \in DOMAIN paths :
         /\ paths[N].url.current = BlogUrl(N)
         /\ paths[N].data = Slice(Ordered, (N - 1) * postPageSize, N * postPageSize)
    /\ \A N \in DOMAIN blogView :
         blogView[N].posts = Slice(Ordered, (N - 1) * postPageSize, N * postPageSize)

\* Three pages were generated and rendered, the last one cut off by the end of
\* the list.
C1_Witness ==
  /\ gspPc = "done"
  /\ Len(paths) = 3
  /\ DOMAIN blogView = 1..3
  /\ Len(blogView[3].posts) < postPageSize
  /\ blogView[1].posts # SubSeq(files, 1, postPageSize)

\* C2: in the list the index page and the /blog/{page} pages display, every
\* sticky post precedes every non-sticky post whatever the dates, and posts
\* with the same sticky flag are in date order (newest first).
C2_StickyFirst ==
  /\ gspPc = "done" => StickyThenDate(ConcatPages(Len(paths)))
  /\ \A k \in DOMAIN blogView : blogView[k].posts = paths[k].data
  /\ idxView.rendered => StickyThenDate(idxView.posts)

\* A sticky post older than a non-sticky one leads the rendered listing, on
\* the index page and on /blog/1.
C2_Witness ==
  /\ idxView.rendered
  /\ 1 \in DOMAIN blogView /\ 2 \in DOMAIN blogView
  /\ \E i, j, m \in 1..Len(files) :
        /\ j < i /\ files[i].sticky /\ ~files[j].sticky
        /\ ~files[m].sticky /\ files[i].date < files[m].date
        /\ idxView.posts[1] = files[i]
        /\ blogView[1].posts[1] = files[i]

\* C3: with n >= 1 posts every page but the last holds exactly postPageSize
\* posts, the last holds 1 .. postPageSize, and the pages in order make up the
\* ordered list, so each post is on exactly one page.
C3_Partition ==
  gspPc = "done" /\ Len(files) >= 1 =>
    LET L == Len(paths)
    IN  /\ \A k \in 1..(L - 1) : Len(paths[k].data) = postPageSize
        /\ Len(paths[L].data) \in 1..postPageSize
        /\ \A k \in 1..L : paths[k].lastPage = L
        /\ ConcatPages(L) = Ordered
        /\ \A f \in 1..Len(files) :
              Cardinality({<<k, i>> \in (1..L) \X (1..postPageSize) :
                              i <= Len(paths[k].data) /\ paths[k].data[i].id = files[f].id}) = 1

\* Two full pages and a last page with a single post.
C3_Witness ==
  /\ gspPc = "done"
  /\ Len(paths) = 3
  /\ Len(paths[3].data) = 1

\* C4: rendering the index page (orderBySticky, then splice) changes neither
\* the collection nor what /blog/{page} gets, whatever the order of the steps.
C4_NoSharedState ==
  /\ heap["store"] = files
  /\ gspPc # "start" => heap[posts] = files
  /\ gspPc \in {"ordered", "done"} => heap[gspSortedPosts] = Ordered
  /\ gspPc = "done" => paths = paginate(Ordered, postPageSize)
  /\ \A k \in DOMAIN blogView : blogView[k] = BlogPageView(paginate(Ordered, postPageSize)[k])

\* The index page has cut its array with splice and every listing page is
\* rendered.
C4_Witness ==
  /\ idxPc = "rendered"
  /\ Len(files) > postPageSize
  /\ Len(heap["idx.sorted"]) = Len(files) - postPageSize
  /\ idxSortedPosts = "idx.spliced"
  /\ gspPc = "done"
  /\ DOMAIN blogView = DOMAIN paths

\* C5: page k out of L passes currentPage = k and totalPage = L to Pagination,
\* prev = /blog/(k-1) exactly when k > 1, next = /blog/(k+1) exactly when
\* k < L, and every prev/next that is present is a generated page.
C5_Descriptor ==
  \A k \in DOMAIN blogView :
    LET L == Len(paths)
        d == blogView[k].pagination[1]
    IN  /\ Len(blogView[k].pagination) = 1
        /\ d.currentPage = k
        /\ d.totalPage = L
        /\ d.url.prev = (IF k > 1 THEN "/blog/" \o ToString(k - 1) ELSE undefined)
        /\ d.url.next = (IF k < L THEN "/blog/" \o ToString(k + 1) ELSE undefined)
        /\ \A u \in {d.url.prev, d.url.next} : u # undefined => u \in GeneratedUrls

\* A first, a middle and a last page are rendered.
C5_Witness ==
  /\ Len(paths) = 3
  /\ DOMAIN blogView = 1..3
  /\ blogView[2].pagination[1].url = [current |-> "/blog/2", prev |-> "/blog/1", next |-> "/blog/3"]

\* The Google Analytics elements of a rendered <head>.
IsGaElement(e) ==
  \/ e \in GoogleAnalytics
  \/ e \in {"gtag('config', ga)", "https://www.googletagmanager.com/gtag/js?id=" \o GaId}

C7_IndexIsPageOne ==
  idxView.rendered =>
    /\ idxView.posts = SubSeq(Ordered, 1, Min(Len(files), postPageSize))
    /\ gspPc = "done" => idxView.posts = paths[1].data
    /\ 1 \in DOMAIN blogView => idxView.posts = blogView[1].posts

\* The index page cut a longer list and /blog/1 is rendered as well.
C7_Witness ==
  /\ idxView.rendered
  /\ Len(files) > postPageSize
  /\ 1 \in DOMAIN blogView
  /\ Len(idxView.posts) = postPageSize

\* C8: the index page renders Pagination exactly when n > postPageSize; its
\* next link /blog/2 is then a generated page and its prev link is empty.
C8_IndexPagination ==
  idxView.rendered =>
    /\ Len(idxView.pagination) = 1 <=> Len(files) > postPageSize
    /\ \A i \in 1..Len(idxView.pagination) :
         LET d == idxView.pagination[i]
         IN  /\ d.totalPage > 1
             /\ d.url.next = "/blog/2"
             /\ gspPc = "done" => d.url.next \in GeneratedUrls
             /\ ~Truthy(d.url.prev)

\* The index page shows the control and /blog/2 exists.
C8_Witness ==
  /\ idxView.rendered
  /\ Len(idxView.pagination) = 1
  /\ gspPc = "done"
  /\ "/blog/2" \in GeneratedUrls

\* C9: with n >= 1 posts the totalPage of the index page is the lastPage of
\* every /blog/{page}.
C9_SameTotal ==
  idxPc # "start" /\ Len(files) >= 1 =>
    /\ gspPc = "done" => \A k \in DOMAIN paths : paths[k].lastPage = totalPage
    /\ \A k \in DOMAIN blogView : blogView[k].pagination[1].totalPage = totalPage
    /\ \A i \in 1..Len(idxView.pagination) :
         \A k \in DOMAIN blogView :
            idxView.pagination[i].totalPage = blogView[k].pagination[1].totalPage

\* Both views are rendered over a list whose last page is not full.
C9_Witness ==
  /\ idxView.rendered
  /\ Len(idxView.pagination) = 1
  /\ Len(files) % postPageSize # 0
  /\ DOMAIN blogView = DOMAIN paths
  /\ gspPc = "done"

\* C10: whatever the number of posts, 0 included, getStaticPaths generates
\* /blog/1, the href of the navigation entry Blog.
C10_BlogLinkGenerated ==
  gspPc = "done" => BlogCategoryHref \in GeneratedUrls

\* getStaticPaths ran over an empty collection and its only page is rendered.
C10_Witness ==
  /\ gspPc = "done"
  /\ files = << >>
  /\ 1 \in DOMAIN blogView

(***************************************************************************)
(* astro.config.mjs: customRehypeLazyLoadImage                             *)
(*                                                                         *)
(* visit(tree, visitor) calls the visitor once on every node of the tree.  *)
(* The visitor reads and writes the node it is given and nothing else, so  *)
(* the tree is kept as the sequence of its nodes in visiting order.        *)
(***************************************************************************)
\* The build is not running.
SiteIdle ==
  /\ files = << >> /\ ga = JsFalse /\ heap = << >> /\ idxPc = "idle" /\ blogs = NoRef
  /\ totalPage = 0 /\ idxSortedPosts = NoRef /\ idxView = NoView /\ gspPc = "idle"
  /\ posts = NoRef /\ gspSortedPosts = NoRef /\ paths = << >> /\ blogView = << >>
  /\ head = {}

MaxNodes == 3       \* nodes in a tree: 0 .. MaxNodes

notRehypeVars == <<siteVars, sfVars, accVars, ctrVars, cdVars, bkVars>>

\* obj[k] in JavaScript: undefined when obj has no k.
GetProp(obj, k) == IF k \in DOMAIN obj THEN obj[k] ELSE undefined

\* obj[k] = v.
SetProp(obj, k, v) == [x \in DOMAIN obj \cup {k} |-> IF x = k THEN v ELSE obj[x]]

\* The nodes a tree is made of: images with and without alt or src, an image
\* that carries data-src already, elements that are no images, a text node.
NodeKinds ==
  { [type |-> "element", tagName |-> "img", properties |-> [src |-> "/a.png", alt |-> "A"]],
    [type |-> "element", tagName |-> "img", properties |-> [src |-> "/b.png"]],
    [type |-> "element", tagName |-> "img", properties |-> [alt |-> "C"]],
    [type |-> "element", tagName |-> "img",
       properties |-> SetProp([src |-> "/d.png", alt |-> "D"], "data-src", "/old.png")],
    [type |-> "element", tagName |-> "p", properties |-> << >>],
    [type |-> "element", tagName |-> "script", properties |-> [src |-> "/s.js"]],
    [type |-> "text", value |-> "img"] }

\* A variant that loses the source: src is overwritten before it is copied.
LazyLoadVisitor_srcFirst(node) ==
  IF GetProp(node, "tagName") = "img"
    THEN LET p1 == SetProp(node.properties, "src", "/spinner.gif")
             p2 == SetProp(p1, "data-src", GetProp(p1, "src"))
             p3 == SetProp(p2, "data-alt", GetProp(p2, "alt"))
             p4 == SetProp(p3, "alt", "default")
         IN  [node EXCEPT !.properties = p4]
    ELSE node

\* lines 26-33: the visitor.
LazyLoadVisitor(node) ==
  IF GetProp(node, "tagName") = "img"
    THEN LET p1 == SetProp(node.properties, "data-src", GetProp(node.properties, "src"))
             p2 == SetProp(p1, "src", "/spinner.gif")
             p3 == SetProp(p2, "data-alt", GetProp(p2, "alt"))
             p4 == SetProp(p3, "alt", "default")
         IN  [node EXCEPT !.properties = p4]
    ELSE node

RECURSIVE Trees(_)
Trees(n) ==
  IF n = 0 THEN {<< >>}
  ELSE Trees(n - 1) \cup {Append(t, k) : t \in {u \in Trees(n - 1) : Len(u) = n - 1}, k \in NodeKinds}

InitRehype ==
  /\ rhOrig \in Trees(MaxNodes)
  /\ rhTree = rhOrig
  /\ rhPos = 0
  /\ SiteIdle /\ SfIdle /\ AccIdle /\ CtrIdle /\ CdIdle /\ BkIdle

\* line 26: visit reaches the next node and calls the visitor on it.
RehypeVisit ==
  /\ rhPos < Len(rhTree)
  /\ rhTree' = [rhTree EXCEPT ![rhPos + 1] = LazyLoadVisitor(@)]
  /\ rhPos' = rhPos + 1
  /\ UNCHANGED <<rhOrig, notRehypeVars>>

NextRehype == RehypeVisit

SpecRehype == InitRehype /\ [][NextRehype]_vars

\* C11: after one pass every img node has data-src = its original src,
\* src = '/spinner.gif', data-alt = its original alt and alt = 'default', its
\* other properties as they were; every other node is unchanged.
C11_LazyLoad ==
  \A i \in 1..Len(rhOrig) :
    IF i <= rhPos /\ GetProp(rhOrig[i], "tagName") = "img"
      THEN LET was == rhOrig[i].properties
               now == rhTree[i].properties
           IN  /\ DOMAIN now = DOMAIN was \cup {"src", "alt", "data-src", "data-alt"}
               /\ now["data-src"] = GetProp(was, "src")
               /\ now["src"] = "/spinner.gif"
               /\ now["data-alt"] = GetProp(was, "alt")
               /\ now["alt"] = "default"
               /\ \A k \in DOMAIN was \ {"src", "alt", "data-src", "data-alt"} : now[k] = was[k]
               /\ [rhTree[i] EXCEPT !.properties = was] = rhOrig[i]
      ELSE rhTree[i] = rhOrig[i]

\* The pass is over on a tree with an image that had data-src already and an
\* element with src that is no image.
C11_Witness ==
  /\ rhPos = Len(rhTree)
  /\ \E i, j \in 1..Len(rhTree) :
        /\ GetProp(rhOrig[i], "tagName") = "img"
        /\ GetProp(rhOrig[i].properties, "data-src") = "/old.png"
        /\ rhTree[i].properties["data-src"] = "/d.png"
        /\ GetProp(rhOrig[j], "tagName") = "script"
        /\ rhTree[j].properties["src"] = "/s.js"

(***************************************************************************)
(* singleflight.md: Group.Do and Group.doCall                              *)
(*                                                                         *)
(* Goroutines 1 .. MaxCallers call g.Do once each, with a key of their     *)
(* choice.  fn returns (val, err), panics, or calls runtime.Goexit.  The   *)
(* part of doCall's deferred function that the listing leaves out          *)
(* ("handle each case") is the library's: with g.mu held it calls          *)
(* c.wg.Done(), deletes the key if it still maps to c, and panics again    *)
(* when fn panicked.                                                       *)
(***************************************************************************)
MaxCallers == 2     \* goroutines calling Do
MaxKeys == 2        \* keys 1 .. MaxKeys

notSfVars == <<siteVars, rehypeVars, accVars, ctrVars, cdVars, bkVars>>

Callers == 1..MaxCallers
Keys == 1..MaxKeys

nil == "nil"
errGoexit == "errGoexit"
panicError == "panicError"

\* What a call of fn may end in: a value, an error, a panic, runtime.Goexit.
FnOutcomes == {"value", "error", "panic", "goexit"}

\* new(call)
NewCall == [wg |-> 0, val |-> nil, err |-> nil, dups |-> 0]

InitSingleflight ==
  /\ sfMu = 0
  /\ sfM = << >>
  /\ sfCalls = << >>
  /\ sfG = [g \in Callers |->
              [pc |-> "call", key |-> 0, c |-> 0, ok |-> FALSE, fnRuns |-> 0,
               normalReturn |-> FALSE, recovered |-> FALSE,
               ret |-> [v |-> nil, err |-> nil, shared |-> FALSE]]]
  /\ SiteIdle /\ RehypeIdle /\ AccIdle /\ CtrIdle /\ CdIdle /\ BkIdle

\* Do: g.mu.Lock()
SfLock(g) ==
  /\ sfG[g].pc = "call"
  /\ sfMu = 0
  /\ sfMu' = g
  /\ \E key \in Keys : sfG' = [sfG EXCEPT ![g].pc = "locked", ![g].key = key]
  /\ UNCHANGED <<sfM, sfCalls, notSfVars>>

\* A variant that forgets to put the new call into the map.
SfLookup_noInsert(g) ==
  /\ sfG[g].pc = "locked"
  /\ sfMu = g
  /\ LET key == sfG[g].key
     IN  IF key \in DOMAIN sfM
           THEN /\ sfCalls' = [sfCalls EXCEPT ![sfM[key]].dups = @ + 1]
                /\ sfG' = [sfG EXCEPT ![g].pc = "wait", ![g].c = sfM[key], ![g].ok = TRUE]
                /\ UNCHANGED sfM
           ELSE /\ sfCalls' = Append(sfCalls, [NewCall EXCEPT !.wg = 1])
                /\ sfG' = [sfG EXCEPT ![g].pc = "doCall", ![g].c = Len(sfCalls) + 1]
                /\ UNCHANGED sfM
  /\ sfMu' = 0
  /\ UNCHANGED notSfVars

\* Do: from the map lookup to g.mu.Unlock(), on either branch.
SfLookup(g) ==
  /\ sfG[g].pc = "locked"
  /\ sfMu = g
  /\ LET key == sfG[g].key
     IN  IF key \in DOMAIN sfM
           THEN /\ sfCalls' = [sfCalls EXCEPT ![sfM[key]].dups = @ + 1]
                /\ sfG' = [sfG EXCEPT ![g].pc = "wait", ![g].c = sfM[key], ![g].ok = TRUE]
                /\ UNCHANGED sfM
           ELSE /\ sfCalls' = Append(sfCalls, [NewCall EXCEPT !.wg = 1])
                /\ sfG' = [sfG EXCEPT ![g].pc = "doCall", ![g].c = Len(sfCalls) + 1]
                /\ sfM' = (key :> (Len(sfCalls) + 1)) @@ sfM
  /\ sfMu' = 0
  /\ UNCHANGED notSfVars

\* doCall: fn is called.
SfFnStart(g) ==
  /\ sfG[g].pc = "doCall"
  /\ sfG' = [sfG EXCEPT ![g].pc = "running", ![g].fnRuns = @ + 1]
  /\ UNCHANGED <<sfMu, sfM, sfCalls, notSfVars>>

\* doCall: fn ends; the inner deferred function and the lines after the inner
\* function run.  The value fn returns is the number of its call, so that two
\* executions never return the same value.
SfFnEnd(g) ==
  /\ sfG[g].pc = "running"
  /\ \E outcome \in FnOutcomes :
       LET c == sfG[g].c
       IN  CASE outcome = "value" ->
                  /\ sfCalls' = [sfCalls EXCEPT ![c].val = c, ![c].err = nil]
                  /\ sfG' = [sfG EXCEPT ![g].pc = "defer", ![g].normalReturn = TRUE]
             [] outcome = "error" ->
                  /\ sfCalls' = [sfCalls EXCEPT ![c].val = nil, ![c].err = "error"]
                  /\ sfG' = [sfG EXCEPT ![g].pc = "defer", ![g].normalReturn = TRUE]
             [] outcome = "panic" ->
                  /\ sfCalls' = [sfCalls EXCEPT ![c].err = panicError]
                  /\ sfG' = [sfG EXCEPT ![g].pc = "defer", ![g].recovered = TRUE]
             [] outcome = "goexit" ->
                  /\ sfCalls' = sfCalls
                  /\ sfG' = [sfG EXCEPT ![g].pc = "defer"]
  /\ UNCHANGED <<sfMu, sfM, notSfVars>>

\* doCall's deferred function: c.err = errGoexit when fn called Goexit, then
\* g.mu.Lock().
SfDeferLock(g) ==
  /\ sfG[g].pc = "defer"
  /\ sfMu = 0
  /\ sfMu' = g
  /\ sfCalls' = IF ~sfG[g].normalReturn /\ ~sfG[g].recovered
                  THEN [sfCalls EXCEPT ![sfG[g].c].err = errGoexit]
                  ELSE sfCalls
  /\ sfG' = [sfG EXCEPT ![g].pc = "deferLocked"]
  /\ UNCHANGED <<sfM, notSfVars>>

\* doCall's deferred function: c.wg.Done(), delete(g.m, key) if the key still
\* maps to c, g.mu.Unlock(); the goroutine goes on by what fn ended in.
SfDeferDone(g) ==
  /\ sfG[g].pc = "deferLocked"
  /\ sfMu = g
  /\ LET c == sfG[g].c
         key == sfG[g].key
     IN  /\ sfCalls' = [sfCalls EXCEPT ![c].wg = @ - 1]
         /\ sfM' = IF key \in DOMAIN sfM /\ sfM[key] = c
                     THEN [k \in DOMAIN sfM \ {key} |-> sfM[k]]
                     ELSE sfM
         /\ sfG' = [sfG EXCEPT ![g].pc =
                      IF sfCalls[c].err = panicError THEN "panicked"
                      ELSE IF sfCalls[c].err = errGoexit THEN "exited"
                      ELSE "return"]
  /\ sfMu' = 0
  /\ UNCHANGED notSfVars

\* Do: return c.val, c.err, c.dups > 0
SfReturn(g) ==
  /\ sfG[g].pc = "return"
  /\ LET c == sfCalls[sfG[g].c]
     IN  sfG' = [sfG EXCEPT ![g].pc = "returned",
                            ![g].ret = [v |-> c.val, err |-> c.err, shared |-> c.dups > 0]]
  /\ UNCHANGED <<sfMu, sfM, sfCalls, notSfVars>>

\* A variant that does not wait for the call to complete.
SfWaitDone_noWait(g) ==
  /\ sfG[g].pc = "wait"
  /\ LET c == sfCalls[sfG[g].c]
     IN  sfG' = [sfG EXCEPT
                   ![g].pc = IF c.err = panicError THEN "panicked"
                             ELSE IF c.err = errGoexit THEN "exited"
                             ELSE "returned",
                   ![g].ret = IF c.err \in {panicError, errGoexit} THEN @
                              ELSE [v |-> c.val, err |-> c.err, shared |-> TRUE]]
  /\ UNCHANGED <<sfMu, sfM, sfCalls, notSfVars>>

\* Do, duplicate branch: c.wg.Wait() returns; panic, Goexit or
\* return c.val, c.err, true
SfWaitDone(g) ==
  /\ sfG[g].pc = "wait"
  /\ sfCalls[sfG[g].c].wg = 0
  /\ LET c == sfCalls[sfG[g].c]
     IN  sfG' = [sfG EXCEPT
                   ![g].pc = IF c.err = panicError THEN "panicked"
                             ELSE IF c.err = errGoexit THEN "exited"
                             ELSE "returned",
                   ![g].ret = IF c.err \in {panicError, errGoexit} THEN @
                              ELSE [v |-> c.val, err |-> c.err, shared |-> TRUE]]
  /\ UNCHANGED <<sfMu, sfM, sfCalls, notSfVars>>

NextSingleflight ==
  \E g \in Callers :
     \/ SfLock(g)
     \/ SfLookup(g)
     \/ SfFnStart(g)
     \/ SfFnEnd(g)
     \/ SfDeferLock(g)
     \/ SfDeferDone(g)
     \/ SfReturn(g)
     \/ SfWaitDone(g)

SpecSingleflight == InitSingleflight /\ [][NextSingleflight]_vars

\* The goroutines executing fn for key k.
SfInFlight(k) == {g \in Callers : sfG[g].pc = "running" /\ sfG[g].key = k}

\* The goroutine that created call c, and the duplicates that joined it.
SfOwners(c) == {g \in Callers : sfG[g].c = c /\ ~sfG[g].ok}
SfDups(c) == {g \in Callers : sfG[g].c = c /\ sfG[g].ok}

\* C12: for each key at most one execution of fn is in flight at any time,
\* and a caller that found the key in the map never runs fn.
C12_OneInFlight ==
  /\ \A k \in Keys : Cardinality(SfInFlight(k)) <= 1
  /\ \A g \in Callers : sfG[g].ok => sfG[g].fnRuns = 0 /\ sfG[g].pc \in {"wait", "returned", "panicked", "exited"}

\* One goroutine executes fn for a key while another, which found the key,
\* waits; an earlier execution may be over.
C12_Witness ==
  \E g, h \in Callers :
     /\ sfG[g].pc = "running"
     /\ sfG[h].pc = "wait"
     /\ sfG[h].key = sfG[g].key
     /\ sfG[h].ok

\* C13: a duplicate caller gets past c.wg.Wait() only when the first caller's
\* fn is over, and returns the (val, err) the first caller returns, with
\* shared = true; the first caller returns shared = true exactly when a
\* duplicate joined its call.
C13_SharedResult ==
  \A g \in Callers :
    LET c == sfG[g].c
    IN  /\ sfG[g].ok /\ sfG[g].pc \in {"returned", "panicked", "exited"} =>
             /\ sfCalls[c].wg = 0
             /\ \A o \in SfOwners(c) : sfG[o].pc \in {"return", "returned", "panicked", "exited"}
        /\ sfG[g].ok /\ sfG[g].pc = "returned" =>
             /\ sfG[g].ret = [v |-> sfCalls[c].val, err |-> sfCalls[c].err, shared |-> TRUE]
             /\ \A o \in SfOwners(c) :
                  /\ sfG[o].pc \in {"return", "returned"}
                  /\ sfG[o].pc = "returned" =>
                       sfG[o].ret.v = sfG[g].ret.v /\ sfG[o].ret.err = sfG[g].ret.err
        /\ ~sfG[g].ok /\ sfG[g].pc = "returned" =>
             /\ sfG[g].ret.shared = (SfDups(c) # {})
             /\ sfCalls[c].dups = Cardinality(SfDups(c))

\* The first caller and a duplicate have both returned the value of one
\* execution of fn, shared.
C13_Witness ==
  \E g, o \in Callers :
     /\ sfG[g].ok /\ ~sfG[o].ok
     /\ sfG[g].c = sfG[o].c
     /\ sfG[g].pc = "returned" /\ sfG[o].pc = "returned"
     /\ sfG[o].ret = [v |-> sfG[o].c, err |-> nil, shared |-> TRUE]
     /\ sfG[g].ret = sfG[o].ret

(***************************************************************************)
(* Account.UpdateBalance: optimistic lock with a version number            *)
(*                                                                         *)
(* Goroutines 1 .. MaxUpdaters call UpdateBalance once each on a zero      *)
(* Account.  Every atomic operation of the listing is one step.            *)
(***************************************************************************)
MaxUpdaters == 2    \* goroutines calling UpdateBalance
MaxAmount == 2      \* amounts 1 .. MaxAmount

notAccVars == <<siteVars, rehypeVars, sfVars, ctrVars, cdVars, bkVars>>

Updaters == 1..MaxUpdaters

InitAccount ==
  /\ accBalance = 0
  /\ accVersion = 0
  /\ accG \in [Updaters -> [pc : {"loadBalance"}, amount : 1..MaxAmount,
                            currentBalance : {0}, currentVersion : {0},
                            newBalance : {0}, ret : {FALSE}]]
  /\ SiteIdle /\ RehypeIdle /\ SfIdle /\ CtrIdle /\ CdIdle /\ BkIdle

\* currentBalance := atomic.LoadInt32(&a.balance)
AccLoadBalance(g) ==
  /\ accG[g].pc = "loadBalance"
  /\ accG' = [accG EXCEPT ![g].pc = "loadVersion", ![g].currentBalance = accBalance]
  /\ UNCHANGED <<accBalance, accVersion, notAccVars>>

\* currentVersion := atomic.LoadInt32(&a.version); newBalance := currentBalance + amount
AccLoadVersion(g) ==
  /\ accG[g].pc = "loadVersion"
  /\ accG' = [accG EXCEPT ![g].pc = "cas", ![g].currentVersion = accVersion,
                          ![g].newBalance = accG[g].currentBalance + accG[g].amount]
  /\ UNCHANGED <<accBalance, accVersion, notAccVars>>

\* atomic.CompareAndSwapInt32(&a.version, currentVersion, currentVersion+1):
\* on success go on to the store, else retry.
AccCas(g) ==
  /\ accG[g].pc = "cas"
  /\ IF accVersion = accG[g].currentVersion
       THEN /\ accVersion' = accG[g].currentVersion + 1
            /\ accG' = [accG EXCEPT ![g].pc = "store"]
       ELSE /\ accVersion' = accVersion
            /\ accG' = [accG EXCEPT ![g].pc = "loadBalance"]
  /\ UNCHANGED <<accBalance, notAccVars>>

\* atomic.StoreInt32(&a.balance, newBalance); return true
AccStore(g) ==
  /\ accG[g].pc = "store"
  /\ accBalance' = accG[g].newBalance
  /\ accG' = [accG EXCEPT ![g].pc = "done", ![g].ret = TRUE]
  /\ UNCHANGED <<accVersion, notAccVars>>

\* GetDetails: the balance and the version.
GetDetails == <<accBalance, accVersion>>

NextAccount ==
  \E g \in Updaters :
     \/ AccLoadBalance(g)
     \/ AccLoadVersion(g)
     \/ AccCas(g)
     \/ AccStore(g)

SpecAccount == InitAccount /\ [][NextAccount]_vars

RECURSIVE AccSum(_)
AccSum(n) == IF n = 0 THEN 0 ELSE AccSum(n - 1) + accG[n].amount

\* C14: once all calls have returned true the balance is the initial balance
\* plus all amounts and the version is the initial version plus the number of
\* calls; no update computed from a stale balance is committed.
C14_AllApplied ==
  /\ (\A g \in Updaters : accG[g].pc = "done" /\ accG[g].ret) =>
        GetDetails = <<AccSum(MaxUpdaters), MaxUpdaters>>
  /\ \A g \in Updaters : accG[g].pc = "store" => accG[g].currentBalance = accBalance

\* The version half of C14 alone.
C14_VersionCounts ==
  (\A g \in Updaters : accG[g].pc = "done") => accVersion = MaxUpdaters

(***************************************************************************)
(* Counter.Increment: CAS retry loop                                       *)
(***************************************************************************)
MaxIncrementers == 3   \* goroutines calling Increment
MaxInitial == 1        \* c.value starts in 0 .. MaxInitial

notCtrVars == <<siteVars, rehypeVars, sfVars, accVars, cdVars, bkVars>>

Incrementers == 1..MaxIncrementers

InitCounter ==
  /\ ctrInitial \in 0..MaxInitial
  /\ ctrValue = ctrInitial
  /\ ctrG = [g \in Incrementers |->
               [pc |-> "load", current |-> 0, newValue |-> 0, retries |-> 0]]
  /\ SiteIdle /\ RehypeIdle /\ SfIdle /\ AccIdle /\ CdIdle /\ BkIdle

\* current := atomic.LoadInt32(&c.value); newValue := current + 1
CtrLoad(g) ==
  /\ ctrG[g].pc = "load"
  /\ ctrG' = [ctrG EXCEPT ![g].pc = "cas", ![g].current = ctrValue,
                          ![g].newValue = ctrValue + 1]
  /\ UNCHANGED <<ctrValue, ctrInitial, notCtrVars>>

\* A variant that stores without comparing.
CtrCas_store(g) ==
  /\ ctrG[g].pc = "cas"
  /\ ctrValue' = ctrG[g].newValue
  /\ ctrG' = [ctrG EXCEPT ![g].pc = "done"]
  /\ UNCHANGED <<ctrInitial, notCtrVars>>

\* atomic.CompareAndSwapInt32(&c.value, current, newValue): break on success,
\* else go round the loop again.
CtrCas(g) ==
  /\ ctrG[g].pc = "cas"
  /\ IF ctrValue = ctrG[g].current
       THEN /\ ctrValue' = ctrG[g].newValue
            /\ ctrG' = [ctrG EXCEPT ![g].pc = "done"]
       ELSE /\ ctrValue' = ctrValue
            /\ ctrG' = [ctrG EXCEPT ![g].pc = "load", ![g].retries = @ + 1]
  /\ UNCHANGED <<ctrInitial, notCtrVars>>

\* Value()
Value == ctrValue

CtrStep(g) == CtrLoad(g) \/ CtrCas(g)

NextCounter ==
  \E g \in Incrementers :
     \/ CtrLoad(g)
     \/ CtrCas(g)

\* Every goroutine that can take a step eventually takes one.
SpecCounter ==
  /\ InitCounter
  /\ [][NextCounter]_vars
  /\ \A g \in Incrementers : WF_vars(CtrStep(g))

CtrReturned == {g \in Incrementers : ctrG[g].pc = "done"}

\* C15: Value() is the initial value plus the number of calls that have
\* returned, so initial + number of calls once all have; a CAS fails only
\* when the value has moved on since the load, that is, when another
\* goroutine's CAS succeeded in between; and all calls return.
C15_NoLostUpdate ==
  /\ [](Value = ctrInitial + Cardinality(CtrReturned))
  /\ [][\A g \in Incrementers :
          ctrG[g].pc = "cas" /\ ctrG'[g].pc = "load" =>
             /\ ctrValue > ctrG[g].current
             /\ \E h \in Incrementers \ {g} : ctrG[h].pc = "done"]_vars
  /\ <>(CtrReturned = Incrementers /\ Value = ctrInitial + MaxIncrementers)

\* All calls have returned and one of them had to retry.
C15_Witness ==
  /\ CtrReturned = Incrementers
  /\ \E g \in Incrementers : ctrG[g].retries > 0
  /\ Value = ctrInitial + MaxIncrementers

(***************************************************************************)
(* CondSignalExample: sync.Cond, one goroutine after another               *)
(*                                                                         *)
(* cdMutex is 0 or the goroutine that holds c.L; cdWaiters is c's notify   *)
(* list, oldest first; cdG[g] is the position of goroutine g, cdMain the   *)
(* position of the main goroutine.  time.Sleep orders nothing: it is a     *)
(* step like any other.                                                    *)
(***************************************************************************)
NumGoroutines == 5

notCdVars == <<siteVars, rehypeVars, sfVars, accVars, ctrVars, bkVars>>

Goroutines == 1..NumGoroutines

InitCond ==
  /\ cdMutex = 0
  /\ cdWaiters = << >>
  /\ cdWg = 0
  /\ cdG = [g \in Goroutines |-> "unborn"]
  /\ cdMain = "loop"
  /\ SiteIdle /\ RehypeIdle /\ SfIdle /\ AccIdle /\ CtrIdle /\ BkIdle

\* c.Signal(): wake the goroutine that has waited longest, if there is any.
\* g is the goroutine that signals (0 for main), to its next position.
Signal(g, to) ==
  /\ cdWaiters' = IF cdWaiters = << >> THEN cdWaiters ELSE Tail(cdWaiters)
  /\ cdG' = [h \in Goroutines |->
               IF h = g THEN to
               ELSE IF cdWaiters # << >> /\ h = Head(cdWaiters) THEN "woken"
               ELSE cdG[h]]

\* for i := 0; i < 5; i++ { wg.Add(1); go func(id int) {...}(i) }
CdSpawn ==
  /\ cdMain = "loop"
  /\ \E g \in Goroutines :
        /\ cdG[g] = "unborn"
        /\ \A h \in Goroutines : h < g => cdG[h] # "unborn"
        /\ cdG' = [cdG EXCEPT ![g] = "lock"]
        /\ cdWg' = cdWg + 1
  /\ UNCHANGED <<cdMutex, cdWaiters, cdMain, notCdVars>>

\* The loop is over; time.Sleep(2 * time.Second)
CdSleep ==
  /\ cdMain = "loop"
  /\ \A g \in Goroutines : cdG[g] # "unborn"
  /\ cdMain' = "signal"
  /\ UNCHANGED <<cdMutex, cdWaiters, cdWg, cdG, notCdVars>>

\* main: c.Signal()
CdMainSignal ==
  /\ cdMain = "signal"
  /\ Signal(0, "")
  /\ cdMain' = "wgWait"
  /\ UNCHANGED <<cdMutex, cdWg, notCdVars>>

\* main: wg.Wait() returns when the counter is zero
CdMainWait ==
  /\ cdMain = "wgWait"
  /\ cdWg = 0
  /\ cdMain' = "returned"
  /\ UNCHANGED <<cdMutex, cdWaiters, cdWg, cdG, notCdVars>>

\* c.L.Lock()
CdLock(g) ==
  /\ cdG[g] = "lock"
  /\ cdMutex = 0
  /\ cdMutex' = g
  /\ cdG' = [cdG EXCEPT ![g] = "locked"]
  /\ UNCHANGED <<cdWaiters, cdWg, cdMain, notCdVars>>

\* c.Wait(), first half: join the notify list and unlock c.L
CdWait(g) ==
  /\ cdG[g] = "locked"
  /\ cdWaiters' = Append(cdWaiters, g)
  /\ cdMutex' = 0
  /\ cdG' = [cdG EXCEPT ![g] = "waiting"]
  /\ UNCHANGED <<cdWg, cdMain, notCdVars>>

\* A variant of c.Wait() that returns without locking c.L again.
CdWake_noLock(g) ==
  /\ cdG[g] = "woken"
  /\ cdG' = [cdG EXCEPT ![g] = "working"]
  /\ UNCHANGED <<cdMutex, cdWaiters, cdWg, cdMain, notCdVars>>

\* c.Wait(), second half: once signalled, lock c.L again and return
CdWake(g) ==
  /\ cdG[g] = "woken"
  /\ cdMutex = 0
  /\ cdMutex' = g
  /\ cdG' = [cdG EXCEPT ![g] = "working"]
  /\ UNCHANGED <<cdWaiters, cdWg, cdMain, notCdVars>>

\* The task (Printf, time.Sleep), then c.L.Unlock()
CdUnlock(g) ==
  /\ cdG[g] = "working"
  /\ cdMutex' = 0
  /\ cdG' = [cdG EXCEPT ![g] = "unlocked"]
  /\ UNCHANGED <<cdWaiters, cdWg, cdMain, notCdVars>>

\* c.Signal() of a goroutine
CdSignal(g) ==
  /\ cdG[g] = "unlocked"
  /\ Signal(g, "signalled")
  /\ UNCHANGED <<cdMutex, cdWg, cdMain, notCdVars>>

\* defer wg.Done()
CdDone(g) ==
  /\ cdG[g] = "signalled"
  /\ cdWg' = cdWg - 1
  /\ cdG' = [cdG EXCEPT ![g] = "done"]
  /\ UNCHANGED <<cdMutex, cdWaiters, cdMain, notCdVars>>

NextCond ==
  \/ CdSpawn
  \/ CdSleep
  \/ CdMainSignal
  \/ CdMainWait
  \/ \E g \in Goroutines :
        \/ CdLock(g)
        \/ CdWait(g)
        \/ CdWake(g)
        \/ CdUnlock(g)
        \/ CdSignal(g)
        \/ CdDone(g)

\* Some goroutine that can run does run.
SpecCond == InitCond /\ [][NextCond]_vars /\ WF_vars(NextCond)

\* C16: in every run all goroutines get past c.Wait() and finish, and
\* wg.Wait() in main returns.
C16_AllProceed ==
  <>(cdMain = "returned" /\ \A g \in Goroutines : cdG[g] = "done")

\* The runs C16 fails on end here: main has signalled, nobody is left to
\* signal, and goroutines are still on the notify list.
C16_Stuck ==
  /\ cdMain = "wgWait"
  /\ cdWaiters # << >>
  /\ \A g \in Goroutines : cdG[g] \in {"waiting", "done"}

CdWorking == {g \in Goroutines : cdG[g] = "working"}

\* C17: at most one goroutine is between the return of c.Wait() and
\* c.L.Unlock(), and it holds c.L; a goroutine calls c.Signal() only when its
\* task is over and it has released c.L, and nobody else is at work then.
C17_OneAtATime ==
  /\ [](/\ Cardinality(CdWorking) <= 1
        /\ \A g \in CdWorking : cdMutex = g)
  /\ [][\A g \in Goroutines :
          cdG[g] # "signalled" /\ cdG'[g] = "signalled" =>
             /\ cdG[g] = "unlocked"
             /\ cdMutex # g
             /\ CdWorking = {}]_vars

\* A goroutine is at work after an earlier one has signalled it.
C17_Witness ==
  \E g, h \in Goroutines :
     /\ cdG[g] = "working"
     /\ cdMutex = g
     /\ cdG[h] \in {"signalled", "done"}

(***************************************************************************)
(* BankMutex                                                               *)
(*                                                                         *)
(* bkG[g] is goroutine g: its position and the register of its             *)
(* read-modify-write of balance; bkCh is the buffered channel; bkMain is   *)
(* the main goroutine: position, loop counter, whether ch is closed, and   *)
(* what it has printed.                                                    *)
(***************************************************************************)
InitialBalance == 1000
ChCap == 3
NumReceives == 3

notBkVars == <<siteVars, rehypeVars, sfVars, accVars, ctrVars, cdVars>>

\* go deposit(500, ...); go withdraw(200, ...); go withdraw(600, ...)
Txns == <<[op |-> "deposit", amount |-> 500],
          [op |-> "withdraw", amount |-> 200],
          [op |-> "withdraw", amount |-> 600]>>

Tellers == 1..Len(Txns)

InitBank ==
  /\ bkBalance = InitialBalance
  /\ bkMutex = 0
  /\ bkCh = << >>
  /\ bkG = [g \in Tellers |-> [pc |-> "unborn", reg |-> 0]]
  /\ bkMain = [pc |-> "go", i |-> 0, closed |-> FALSE, out |-> << >>]
  /\ SiteIdle /\ RehypeIdle /\ SfIdle /\ AccIdle /\ CtrIdle /\ CdIdle

\* The go statements, in order.
BkGo ==
  /\ bkMain.pc = "go"
  /\ \E g \in Tellers :
        /\ bkG[g].pc = "unborn"
        /\ \A h \in Tellers : h < g => bkG[h].pc # "unborn"
        /\ bkG' = [bkG EXCEPT ![g].pc = "lock"]
  /\ UNCHANGED <<bkBalance, bkMutex, bkCh, bkMain, notBkVars>>

\* All goroutines started: on to the receive loop.
BkLoop ==
  /\ bkMain.pc = "go"
  /\ \A g \in Tellers : bkG[g].pc # "unborn"
  /\ bkMain' = [bkMain EXCEPT !.pc = "recv"]
  /\ UNCHANGED <<bkBalance, bkMutex, bkCh, bkG, notBkVars>>

\* A variant of mutex.Lock() that does not wait.
BkLock_noWait(g) ==
  /\ bkG[g].pc = "lock"
  /\ bkMutex' = g
  /\ bkG' = [bkG EXCEPT ![g].pc = "read"]
  /\ UNCHANGED <<bkBalance, bkCh, bkMain, notBkVars>>

\* mutex.Lock()
BkLock(g) ==
  /\ bkG[g].pc = "lock"
  /\ bkMutex = 0
  /\ bkMutex' = g
  /\ bkG' = [bkG EXCEPT ![g].pc = "read"]
  /\ UNCHANGED <<bkBalance, bkCh, bkMain, notBkVars>>

\* balance += amount / balance -= amount: the read
BkRead(g) ==
  /\ bkG[g].pc = "read"
  /\ bkG' = [bkG EXCEPT ![g].pc = "write", ![g].reg = bkBalance]
  /\ UNCHANGED <<bkBalance, bkMutex, bkCh, bkMain, notBkVars>>

\* balance += amount / balance -= amount: the write
BkWrite(g) ==
  /\ bkG[g].pc = "write"
  /\ bkBalance' = IF Txns[g].op = "deposit" THEN bkG[g].reg + Txns[g].amount
                                            ELSE bkG[g].reg - Txns[g].amount
  /\ bkG' = [bkG EXCEPT ![g].pc = "unlock"]
  /\ UNCHANGED <<bkMutex, bkCh, bkMain, notBkVars>>

\* mutex.Unlock()
BkUnlock(g) ==
  /\ bkG[g].pc = "unlock"
  /\ bkMutex' = 0
  /\ bkG' = [bkG EXCEPT ![g].pc = "send"]
  /\ UNCHANGED <<bkBalance, bkCh, bkMain, notBkVars>>

\* ch <- amount / ch <- -amount: blocks while the buffer is full; a send on
\* a closed channel panics.
BkSend(g) ==
  /\ bkG[g].pc = "send"
  /\ IF bkMain.closed
       THEN /\ bkG' = [bkG EXCEPT ![g].pc = "panicked"]
            /\ bkCh' = bkCh
       ELSE /\ Len(bkCh) < ChCap
            /\ bkCh' = Append(bkCh, IF Txns[g].op = "deposit" THEN Txns[g].amount
                                                              ELSE 0 - Txns[g].amount)
            /\ bkG' = [bkG EXCEPT ![g].pc = "done"]
  /\ UNCHANGED <<bkBalance, bkMutex, bkMain, notBkVars>>

\* for i := 0; i < 3; i++ { Printf("Transaction amount", <-ch) }, then
\* time.Sleep
BkRecv ==
  /\ bkMain.pc = "recv"
  /\ IF bkMain.i < NumReceives
       THEN /\ bkCh # << >>
            /\ bkCh' = Tail(bkCh)
            /\ bkMain' = [bkMain EXCEPT !.i = @ + 1, !.out = Append(@, Head(bkCh))]
       ELSE /\ bkCh' = bkCh
            /\ bkMain' = [bkMain EXCEPT !.pc = "print"]
  /\ UNCHANGED <<bkBalance, bkMutex, bkG, notBkVars>>

\* Printf("Final balance", balance)
BkPrint ==
  /\ bkMain.pc = "print"
  /\ bkMain' = [bkMain EXCEPT !.pc = "close", !.out = Append(@, bkBalance)]
  /\ UNCHANGED <<bkBalance, bkMutex, bkCh, bkG, notBkVars>>

\* defer close(ch), at the return of BankMutex
BkClose ==
  /\ bkMain.pc = "close"
  /\ bkMain' = [bkMain EXCEPT !.pc = "returned", !.closed = TRUE]
  /\ UNCHANGED <<bkBalance, bkMutex, bkCh, bkG, notBkVars>>

NextBank ==
  \/ BkGo
  \/ BkLoop
  \/ BkRecv
  \/ BkPrint
  \/ BkClose
  \/ \E g \in Tellers :
        \/ BkLock(g)
        \/ BkRead(g)
        \/ BkWrite(g)
        \/ BkUnlock(g)
        \/ BkSend(g)

SpecBank == InitBank /\ [][NextBank]_vars

BkModifying == {g \in Tellers : bkG[g].pc \in {"read", "write", "unlock"}}

\* C18: at most one goroutine is modifying balance, and it holds the mutex;
\* a goroutine that has sent has updated balance, so after three receives
\* the balance printed is 1000 + 500 - 200 - 600 = 700; when ch is closed
\* every goroutine has sent, and none panics.
C18_FinalBalance ==
  /\ Cardinality(BkModifying) <= 1
  /\ \A g \in BkModifying : bkMutex = g
  /\ bkMain.pc \in {"close", "returned"} =>
        /\ Len(bkMain.out) = NumReceives + 1
        /\ bkMain.out[NumReceives + 1] = 700
        /\ bkMain.out[NumReceives + 1] =
              InitialBalance + bkMain.out[1] + bkMain.out[2] + bkMain.out[3]
  /\ bkMain.i = NumReceives => \A g \in Tellers : bkG[g].pc = "done"
  /\ bkMain.closed => \A g \in Tellers : bkG[g].pc = "done"
  /\ \A g \in Tellers : bkG[g].pc # "panicked"

\* BankMutex has returned: 700 printed, ch closed.
C18_Witness ==
  /\ bkMain.pc = "returned"
  /\ bkMain.closed
  /\ bkMain.out[NumReceives + 1] = 700
  /\ bkMain.out[1] = 0 - 600

====
